---- MODULE Spec2Model ----
(***************************************************************************)
(* existing_instance (src/src/lib.rs): detecting a running instance over a *)
(* named local socket.  Processes race on one identifier: connect, and on  *)
(* NotFound / ConnectionRefused bind.  wait_to_be_new polls that resolver  *)
(* with a sleep and a deadline.  Msg::write / Msg::read are the codec.     *)
(*                                                                         *)
(* The named-channel namespace is the platform's: one name, at most one    *)
(* listener bound to it (a bind to a bound name fails with AddrInUse), a   *)
(* bounded queue of pending connections per listener.                      *)
(***************************************************************************)
EXTENDS Integers, Sequences, FiniteSets, TLC

\* ------------------------------------------------------------------ bounds
NProcs == 2
MaxPending == 2
MaxWaiters == 1
MaxSleep == 1
MaxTimeout == 1
MaxLen == 2
NConns == 2
MaxSends == 2

Procs == 1..NProcs
NoProc == 0
SleepChoices == 0..MaxSleep
TimeoutChoices == 0..MaxTimeout
\* elapsed time is kept exactly up to this cap, which exceeds every timeout
ElapsedCap == MaxTimeout + 1
\* the sleep asked for so far is kept exactly up to this cap
SleptCap == MaxTimeout + MaxSleep + 1

VARIABLES
    pc,           \* pc[p]: where process p stands ("start": it has made no call yet)
    nonblocking,  \* nonblocking[p]: the argument of p's call in progress
    sleep_ms,     \* wait_to_be_new's arguments
    timeout_ms,
    elapsed,      \* start.elapsed() of p's wait_to_be_new call
    slept,        \* the sleep p's wait_to_be_new call has asked for so far
    trace,        \* trace[p]: the channel operations of p's establish_endpoint call
    listener,     \* listener[p]: the mode of the Listener p holds, or "none"
    stream,       \* stream[p]: the client Stream p holds
    backlog,      \* backlog[o]: connections pending on o's listener, oldest first
    accepted,     \* accepted[o]: the Stream o's last accept returned
    event,        \* the return this step made, if it made one
    cstate,       \* the codec run: "off", "new", "written" / "peer", "read" / "peer_read"
    cmsg,         \* the Msg given to Msg::write
    wire,         \* the bytes the stream holds
    got,          \* what Msg::read made of them
    recvd,        \* what Stream::recv returned
    s_client,     \* s_client[c]: the client of connection c: "idle", "sending", "dropped", "panicked"
    s_msg,        \* the Msg of the client's send in progress (or last)
    s_parts,      \* what Msg::write of that send still has to write
    s_written,    \* all the bytes the client's writes have put on c
    s_sent,       \* the Msgs whose send has returned
    s_unread,     \* the bytes on c not yet read
    s_rcvd,       \* the Msgs recv on the accepted Stream of c has returned
    s_server,     \* the accepted Stream of c: "open", "dropped", "panicked"
    s_nb,         \* the accepted Streams are non-blocking
    s_event       \* the return or panic of send or recv this step made, if any

chanVars == <<pc, nonblocking, sleep_ms, timeout_ms, elapsed, slept, trace,
              listener, stream, backlog, accepted, event>>
codecVars == <<cstate, cmsg, wire, got, recvd>>
streamVars == <<s_client, s_msg, s_parts, s_written, s_sent, s_unread, s_rcvd,
                s_server, s_nb, s_event>>
vars == <<chanVars, codecVars, streamVars>>

\* ------------------------------------------------------------------ values
RetNew == [tag |-> "New", kind |-> "none"]
RetExisting == [tag |-> "Existing", kind |-> "none"]
RetErr(k) == [tag |-> "Err", kind |-> k]

\* `to`: the "user" of establish_endpoint, the "loop" of wait_to_be_new (which
\* goes on), or "wait": wait_to_be_new itself returns, to its user; "accept":
\* Listener::accept returns, and `after` is what the accept just before it on
\* the same listener returned, if the step before was that
NoEvent ==
    [proc |-> NoProc, to |-> "none", ret |-> [tag |-> "none", kind |-> "none"],
     trace |-> <<>>, nb |-> FALSE, sleep |-> 0, timeout |-> 0, elapsed |-> 0, slept |-> 0,
     after |-> "none"]

\* stream[p] names the process whose listener p connected to
NoStream == NoProc
\* `held`: there is a Stream (None has none)
NoConn == [from |-> NoProc, open |-> FALSE, sent |-> <<>>, held |-> FALSE, poll |-> FALSE]

InWait(p) == pc[p] \in {"w_try", "w_bind", "w_existing", "w_sleep"}

\* a connection as the listener's side holds it; `poll`: it was opened by an
\* attempt of wait_to_be_new
NewConn(p) == [from |-> p, open |-> TRUE, sent |-> <<>>, held |-> TRUE, poll |-> InWait(p)]


\* faulty variant: the two modes taken for each other
NbModeSwapped(nb) == IF nb THEN "Neither" ELSE "Both"

\* ListenerNonblockingMode chosen from the nonblocking flag
NbMode(nb) == IF nb THEN "Both" ELSE "Neither"

\* the processes holding a live Listener bound to the name
Holders == {o \in Procs : listener[o] # "none"}

Holder == IF Holders = {} THEN NoProc ELSE CHOOSE o \in Holders : TRUE

\* local_socket::Stream::connect: with nobody bound the platform reports
\* NotFound or ConnectionRefused, else it connects; the platform may also
\* refuse the caller for a reason of its own
ConnectResults ==
    {"PermissionDenied"} \cup
        (IF Holders = {} THEN {"NotFound", "ConnectionRefused"} ELSE {"Ok"})

\* ListenerOptions::create_sync: a bound name cannot be bound again
BindResults ==
    IF Holders = {} THEN {"Ok"} ELSE {"AddrInUse"}

\* the client end of p's stream is closed: the peer sees the connection closed
ClosedBy(c, p) ==
    IF c.from = p /\ c.open THEN [c EXCEPT !.from = NoProc, !.open = FALSE] ELSE c

CloseConn(q, p) == [i \in DOMAIN q |-> ClosedBy(q[i], p)]

\* ------------------------------------------------------------------ Wire codec
\* size_of::<usize>() on a 64-bit target
WordBytes == 8
\* a usize is kept as WordBytes \div 2 limbs of 16 bits, lowest first
LimbBase == 65536
Limbs == WordBytes \div 2

\* a length (or any small number) as a usize
Usize(n) == [j \in 1..Limbs |-> IF j = 1 THEN n % LimbBase
                                ELSE IF j = 2 THEN n \div LimbBase ELSE 0]


\* faulty variant: the bytes of a usize highest first (to_be_bytes)
ToBeBytes(w) ==
    [i \in 1..WordBytes |-> IF i % 2 = 1 THEN w[Limbs - (i - 1) \div 2] \div 256
                            ELSE w[Limbs - (i - 1) \div 2] % 256]

\* usize::to_le_bytes
ToLeBytes(w) ==
    [i \in 1..WordBytes |-> IF i % 2 = 1 THEN w[(i + 1) \div 2] % 256
                            ELSE w[i \div 2] \div 256]

\* usize::from_le_bytes
FromLeBytes(b) == [j \in 1..Limbs |-> b[2 * j - 1] + 256 * b[2 * j]]

\* Msg values; a String is held as its UTF-8 bytes
MsgNum(w) == [tag |-> "Num", num |-> w, data |-> <<>>]
MsgBytes(d) == [tag |-> "Bytes", num |-> Usize(0), data |-> d]
MsgString(d) == [tag |-> "String", num |-> Usize(0), data |-> d]
MsgNudge == [tag |-> "Nudge", num |-> Usize(0), data |-> <<>>]

\* faulty variant: the tags counted from one
DiscriminantFromOne(m) ==
    CASE m.tag = "Num" -> 1
      [] m.tag = "Bytes" -> 2
      [] m.tag = "String" -> 3
      [] m.tag = "Nudge" -> 4

\* Msg::discriminant: the first byte of a #[repr(u8)] enum, Num = 0 and counting
Discriminant(m) ==
    CASE m.tag = "Num" -> 0
      [] m.tag = "Bytes" -> 1
      [] m.tag = "String" -> 2
      [] m.tag = "Nudge" -> 3

\* Msg::write: the bytes it writes, all writes succeeding
MsgWrite(m) ==
    <<Discriminant(m)>> \o
        CASE m.tag = "Num" -> ToLeBytes(m.num)
          [] m.tag \in {"Bytes", "String"} -> ToLeBytes(Usize(Len(m.data))) \o m.data
          [] OTHER -> <<>>

\* core::str::utf8_char_width
Utf8CharWidth(b) ==
    IF b < 128 THEN 1
    ELSE IF b >= 194 /\ b <= 223 THEN 2
    ELSE IF b >= 224 /\ b <= 239 THEN 3
    ELSE IF b >= 240 /\ b <= 244 THEN 4
    ELSE 0

IsCont(b) == b >= 128 /\ b <= 191

SafeGet(s, i) == IF i <= Len(s) THEN s[i] ELSE 0

\* the second byte a three-byte lead admits
Second3(b, c) ==
    \/ b = 224 /\ c >= 160 /\ c <= 191
    \/ b >= 225 /\ b <= 236 /\ IsCont(c)
    \/ b = 237 /\ c >= 128 /\ c <= 159
    \/ b >= 238 /\ b <= 239 /\ IsCont(c)

\* the second byte a four-byte lead admits
Second4(b, c) ==
    \/ b = 240 /\ c >= 144 /\ c <= 191
    \/ b >= 241 /\ b <= 243 /\ IsCont(c)
    \/ b = 244 /\ c >= 128 /\ c <= 143

\* Utf8Chunks: the chunk that starts at s[i]: its length, and whether it is a
\* character or an ill-formed piece
Utf8Chunk(s, i) ==
    LET b == s[i]
        w == Utf8CharWidth(b)
        c2 == SafeGet(s, i + 1)
        c3 == SafeGet(s, i + 2)
        c4 == SafeGet(s, i + 3)
    IN CASE w = 1 -> [n |-> 1, ok |-> TRUE]
         [] w = 2 -> IF IsCont(c2) THEN [n |-> 2, ok |-> TRUE] ELSE [n |-> 1, ok |-> FALSE]
         [] w = 3 -> IF ~Second3(b, c2) THEN [n |-> 1, ok |-> FALSE]
                     ELSE IF ~IsCont(c3) THEN [n |-> 2, ok |-> FALSE]
                     ELSE [n |-> 3, ok |-> TRUE]
         [] w = 4 -> IF ~Second4(b, c2) THEN [n |-> 1, ok |-> FALSE]
                     ELSE IF ~IsCont(c3) THEN [n |-> 2, ok |-> FALSE]
                     ELSE IF ~IsCont(c4) THEN [n |-> 3, ok |-> FALSE]
                     ELSE [n |-> 4, ok |-> TRUE]
         [] OTHER -> [n |-> 1, ok |-> FALSE]

\* U+FFFD REPLACEMENT CHARACTER in UTF-8
Replacement == <<239, 191, 189>>

\* String::from_utf8_lossy(&s[i..])
RECURSIVE Utf8LossyFrom(_, _)
Utf8LossyFrom(s, i) ==
    IF i > Len(s) THEN <<>>
    ELSE LET c == Utf8Chunk(s, i)
         IN (IF c.ok THEN SubSeq(s, i, i + c.n - 1) ELSE Replacement)
                \o Utf8LossyFrom(s, i + c.n)

Utf8Lossy(s) == Utf8LossyFrom(s, 1)

\* s is UTF-8: what a String can hold
RECURSIVE Utf8ValidFrom(_, _)
Utf8ValidFrom(s, i) ==
    IF i > Len(s) THEN TRUE
    ELSE LET c == Utf8Chunk(s, i) IN c.ok /\ Utf8ValidFrom(s, i + c.n)

Utf8Valid(s) == Utf8ValidFrom(s, 1)

\* faulty variant: a read that fails when the stream holds nothing, and
\* unwraps the reads that follow the tag
MsgReadUnwrap(s) ==
    IF s = <<>> THEN [status |-> "Err", msg |-> MsgNudge, used |-> 0]
    ELSE IF s[1] = 3 THEN [status |-> "Ok", msg |-> MsgNudge, used |-> 1]
    ELSE [status |-> "Panic", msg |-> MsgNudge, used |-> Len(s)]

\* what a read made: a Msg and the bytes used, an io::Error, or a panic
NoRead == [status |-> "none", msg |-> MsgNudge, used |-> 0]
ReadOk(m, n) == [status |-> "Ok", msg |-> m, used |-> n]
ReadErr(n) == [status |-> "Err", msg |-> MsgNudge, used |-> n]
ReadPanic(n) == [status |-> "Panic", msg |-> MsgNudge, used |-> n]

\* a usize small enough to be the length of what a stream here holds
Small(w) == \A j \in 2..Limbs : w[j] = 0

\* read_usize from s[i..]: the value, or nothing when the stream ends first
HasWord(s, i) == Len(s) >= i + WordBytes - 1
ReadUsize(s, i) == FromLeBytes(SubSeq(s, i, i + WordBytes - 1))

\* a length above isize::MAX: vec![0; len] panics with a capacity overflow
TooBig(w) == w[Limbs] >= LimbBase \div 2

\* read_vec from s[i..]: the length prefix, then that many bytes
HasVec(s, i) ==
    /\ HasWord(s, i)
    /\ Small(ReadUsize(s, i))
    /\ Len(s) >= i + WordBytes - 1 + ReadUsize(s, i)[1]
ReadVec(s, i) == SubSeq(s, i + WordBytes, i + WordBytes - 1 + ReadUsize(s, i)[1])

\* Msg::read from a stream that holds s and then ends: read_exact fails
\* with the stream used up when it ends before the bytes asked for
MsgRead(s) ==
    IF s = <<>> THEN ReadErr(0)
    ELSE CASE s[1] = 0 ->
                IF HasWord(s, 2) THEN ReadOk(MsgNum(ReadUsize(s, 2)), 1 + WordBytes)
                ELSE ReadErr(Len(s))
           [] s[1] = 1 ->
                IF HasVec(s, 2)
                THEN ReadOk(MsgBytes(ReadVec(s, 2)), 1 + WordBytes + Len(ReadVec(s, 2)))
                ELSE IF HasWord(s, 2) /\ TooBig(ReadUsize(s, 2)) THEN ReadPanic(1 + WordBytes)
                ELSE ReadErr(Len(s))
           [] s[1] = 2 ->
                IF HasVec(s, 2)
                THEN ReadOk(MsgString(Utf8Lossy(ReadVec(s, 2))),
                            1 + WordBytes + Len(ReadVec(s, 2)))
                ELSE IF HasWord(s, 2) /\ TooBig(ReadUsize(s, 2)) THEN ReadPanic(1 + WordBytes)
                ELSE ReadErr(Len(s))
           [] s[1] = 3 -> ReadOk(MsgNudge, 1)
           [] OTHER -> ReadPanic(1)

\* what Stream::recv returns: Some(msg), None, or it does not return (panic)
NoRecv == [status |-> "none", msg |-> MsgNudge]
RecvSome(m) == [status |-> "Some", msg |-> m]
RecvNone == [status |-> "None", msg |-> MsgNudge]
RecvPanic == [status |-> "Panic", msg |-> MsgNudge]

\* faulty variant: every failure of Msg::read, a panic too, reported as None
RecvCatchAll(g) == IF g.status = "Ok" THEN RecvSome(g.msg) ELSE RecvNone

\* Stream::recv: the match on the result g of Msg::read; a panic of Msg::read
\* is not caught
Recv(g) ==
    CASE g.status = "Ok" -> RecvSome(g.msg)
      [] g.status = "Err" -> RecvNone
      [] OTHER -> RecvPanic

\* ------------------------------------------------------------------ establish_endpoint

\* faulty variant: every failed connect taken for "nobody is there"
ClassifyAnyErrorAbsent(r) == IF r = "Ok" THEN "existing" ELSE "bind"

\* the match on the result of connect: Ok, NotFound | ConnectionRefused, _
Classify(r) ==
    CASE r = "Ok" -> "existing"
      [] r \in {"NotFound", "ConnectionRefused"} -> "bind"
      [] OTHER -> "error"

\* The value r establish_endpoint(id, nb) hands back, after the operations
\* tr, reaches its caller: the user, or the match of wait_to_be_new (Err
\* through `?`, New returned, Existing kept until the end of the match).
EstablishReturn(p, r, tr, nb) ==
    IF InWait(p) /\ r.tag = "Existing"
    THEN /\ pc' = [pc EXCEPT ![p] = "w_existing"]
         /\ trace' = [trace EXCEPT ![p] = tr]
         /\ event' = [NoEvent EXCEPT !.proc = p, !.to = "loop", !.ret = r,
                                     !.trace = tr, !.nb = nb]
         /\ UNCHANGED <<nonblocking, sleep_ms, timeout_ms, elapsed, slept>>
    ELSE /\ pc' = [pc EXCEPT ![p] = "idle"]
         /\ trace' = [trace EXCEPT ![p] = <<>>]
         /\ event' = [NoEvent EXCEPT !.proc = p,
                                     !.to = IF InWait(p) THEN "wait" ELSE "user",
                                     !.ret = r, !.trace = tr, !.nb = nb,
                                     !.sleep = sleep_ms[p], !.timeout = timeout_ms[p],
                                     !.elapsed = elapsed[p], !.slept = slept[p]]
         /\ nonblocking' = [nonblocking EXCEPT ![p] = FALSE]
         /\ sleep_ms' = [sleep_ms EXCEPT ![p] = 0]
         /\ timeout_ms' = [timeout_ms EXCEPT ![p] = 0]
         /\ elapsed' = [elapsed EXCEPT ![p] = 0]
         /\ slept' = [slept EXCEPT ![p] = 0]

\* to_ns_name and Stream::connect, and the match on its result; a connect to
\* a listener whose pending queue is full waits for room
ConnectStep(p, nb) ==
    \E r \in ConnectResults :
        LET tr == <<[op |-> "connect", res |-> r, bound |-> Holders # {}]>> IN
        CASE Classify(r) = "existing" ->
               /\ Len(backlog[Holder]) < MaxPending
               /\ backlog' = [backlog EXCEPT ![Holder] = Append(@, NewConn(p))]
               /\ stream' = [stream EXCEPT ![p] = Holder]
               /\ EstablishReturn(p, RetExisting, tr, nb)
          [] Classify(r) = "bind" ->
               /\ pc' = [pc EXCEPT ![p] = IF InWait(p) THEN "w_bind" ELSE "bind"]
               /\ trace' = [trace EXCEPT ![p] = tr]
               /\ nonblocking' = [nonblocking EXCEPT ![p] = nb]
               /\ event' = NoEvent
               /\ UNCHANGED <<backlog, stream, sleep_ms, timeout_ms, elapsed, slept>>
          [] OTHER ->
               /\ EstablishReturn(p, RetErr(r), tr, nb)
               /\ UNCHANGED <<backlog, stream>>


\* faulty variant: a bound name is taken over (as by removing a stale socket)
BindStepReclaim(p) ==
    \E r \in BindResults :
        LET tr == Append(trace[p], [op |-> "bind", res |-> r, bound |-> Holders # {}]) IN
        /\ listener' = [listener EXCEPT ![p] = NbMode(nonblocking[p])]
        /\ EstablishReturn(p, RetNew, tr, nonblocking[p])

\* faulty variant: a failed bind is tried once more
BindStepRetry(p) ==
    \E r \in BindResults :
        LET tr == Append(trace[p], [op |-> "bind", res |-> r, bound |-> Holders # {}]) IN
        IF r = "Ok"
        THEN /\ listener' = [listener EXCEPT ![p] = NbMode(nonblocking[p])]
             /\ EstablishReturn(p, RetNew, tr, nonblocking[p])
        ELSE IF Len(trace[p]) < 2
        THEN /\ trace' = [trace EXCEPT ![p] = tr]
             /\ event' = NoEvent
             /\ UNCHANGED <<pc, listener, nonblocking, sleep_ms, timeout_ms, elapsed, slept>>
        ELSE /\ EstablishReturn(p, RetErr(r), tr, nonblocking[p])
             /\ UNCHANGED listener

\* faulty variant: a failed bind taken for "somebody is there"
BindStepAsExisting(p) ==
    \E r \in BindResults :
        LET tr == Append(trace[p], [op |-> "bind", res |-> r, bound |-> Holders # {}]) IN
        IF r = "Ok"
        THEN /\ listener' = [listener EXCEPT ![p] = NbMode(nonblocking[p])]
             /\ EstablishReturn(p, RetNew, tr, nonblocking[p])
        ELSE /\ EstablishReturn(p, RetExisting, tr, nonblocking[p])
             /\ UNCHANGED listener

\* ListenerOptions ... create_sync()?, reached after NotFound / ConnectionRefused
BindStep(p) ==
    \E r \in BindResults :
        LET tr == Append(trace[p], [op |-> "bind", res |-> r, bound |-> Holders # {}]) IN
        IF r = "Ok"
        THEN /\ listener' = [listener EXCEPT ![p] = NbMode(nonblocking[p])]
             /\ EstablishReturn(p, RetNew, tr, nonblocking[p])
        ELSE /\ EstablishReturn(p, RetErr(r), tr, nonblocking[p])
             /\ UNCHANGED listener

\* a call of establish_endpoint(id, nb) by the user, or by the loop of
\* wait_to_be_new with the flag it was given: its connect
Connect(p) ==
    /\ pc[p] \in {"start", "idle", "w_try"}
    /\ stream[p] = NoStream
    /\ \E nb \in (IF InWait(p) THEN {nonblocking[p]} ELSE BOOLEAN) : ConnectStep(p, nb)
    /\ UNCHANGED <<listener, accepted>>
    /\ UNCHANGED <<codecVars, streamVars>>

\* its bind
Bind(p) ==
    /\ pc[p] \in {"bind", "w_bind"}
    /\ BindStep(p)
    /\ UNCHANGED <<stream, backlog, accepted>>
    /\ UNCHANGED <<codecVars, streamVars>>

\* ------------------------------------------------------------------ wait_to_be_new
\* the call: start = Instant::now()
WaitToBeNew(p) ==
    /\ pc[p] \in {"start", "idle"}
    /\ stream[p] = NoStream
    /\ Cardinality({q \in Procs : InWait(q)}) < MaxWaiters
    /\ \E nb \in BOOLEAN, s \in SleepChoices, t \in TimeoutChoices :
        /\ nonblocking' = [nonblocking EXCEPT ![p] = nb]
        /\ sleep_ms' = [sleep_ms EXCEPT ![p] = s]
        /\ timeout_ms' = [timeout_ms EXCEPT ![p] = t]
    /\ pc' = [pc EXCEPT ![p] = "w_try"]
    /\ elapsed' = [elapsed EXCEPT ![p] = 0]
    /\ slept' = [slept EXCEPT ![p] = 0]
    /\ trace' = [trace EXCEPT ![p] = <<>>]
    /\ event' = NoEvent
    /\ UNCHANGED <<listener, stream, backlog, accepted>>
    /\ UNCHANGED <<codecVars, streamVars>>


\* faulty variant: the waiter nudges the existing instance before it drops the stream
WaitExistingNudge(p) ==
    /\ pc[p] = "w_existing"
    /\ pc' = [pc EXCEPT ![p] = "w_sleep"]
    /\ stream' = [stream EXCEPT ![p] = NoStream]
    /\ backlog' = [o \in Procs |->
                     [i \in DOMAIN backlog[o] |->
                         IF backlog[o][i].from = p /\ backlog[o][i].open
                         THEN [from |-> NoProc, open |-> FALSE, sent |-> <<3>>, held |-> TRUE, poll |-> TRUE]
                         ELSE backlog[o][i]]]
    /\ accepted' = [o \in Procs |->
                      IF accepted[o].from = p /\ accepted[o].open
                      THEN [from |-> NoProc, open |-> FALSE, sent |-> <<3>>, held |-> TRUE, poll |-> TRUE]
                      ELSE accepted[o]]
    /\ event' = NoEvent
    /\ UNCHANGED <<nonblocking, sleep_ms, timeout_ms, elapsed, slept, trace, listener>>
    /\ UNCHANGED <<codecVars, streamVars>>

\* Endpoint::Existing(_) => {}: the stream is dropped at the end of the match,
\* nothing was written to it
WaitExisting(p) ==
    /\ pc[p] = "w_existing"
    /\ pc' = [pc EXCEPT ![p] = "w_sleep"]
    /\ stream' = [stream EXCEPT ![p] = NoStream]
    /\ backlog' = [o \in Procs |-> CloseConn(backlog[o], p)]
    /\ accepted' = [o \in Procs |-> ClosedBy(accepted[o], p)]
    /\ event' = NoEvent
    /\ UNCHANGED <<nonblocking, sleep_ms, timeout_ms, elapsed, slept, trace, listener>>
    /\ UNCHANGED <<codecVars, streamVars>>


\* faulty variant: the deadline itself counts as exceeded
ExpiredAtDeadline(e, t) == e >= t

\* faulty variant: the comparison turned around
ExpiredReversed(e, t) == t > e

\* start.elapsed().as_millis() > timeout_ms
Expired(e, t) == e > t

\* faulty variant: the deadline check made before the sleep
WaitSleepCheckFirst(p) ==
    /\ pc[p] = "w_sleep"
    /\ LET e == IF elapsed[p] + sleep_ms[p] > ElapsedCap
                THEN ElapsedCap ELSE elapsed[p] + sleep_ms[p]
           z == IF slept[p] + sleep_ms[p] > SleptCap
                THEN SleptCap ELSE slept[p] + sleep_ms[p]
       IN IF Expired(elapsed[p], timeout_ms[p])
          THEN /\ pc' = [pc EXCEPT ![p] = "idle"]
               /\ event' = [NoEvent EXCEPT !.proc = p, !.to = "wait",
                                           !.ret = RetErr("TimedOut"), !.trace = trace[p],
                                           !.nb = nonblocking[p], !.sleep = sleep_ms[p],
                                           !.timeout = timeout_ms[p], !.elapsed = elapsed[p],
                                           !.slept = slept[p]]
               /\ trace' = [trace EXCEPT ![p] = <<>>]
               /\ nonblocking' = [nonblocking EXCEPT ![p] = FALSE]
               /\ sleep_ms' = [sleep_ms EXCEPT ![p] = 0]
               /\ timeout_ms' = [timeout_ms EXCEPT ![p] = 0]
               /\ elapsed' = [elapsed EXCEPT ![p] = 0]
               /\ slept' = [slept EXCEPT ![p] = 0]
          ELSE /\ pc' = [pc EXCEPT ![p] = "w_try"]
               /\ elapsed' = [elapsed EXCEPT ![p] = e]
               /\ slept' = [slept EXCEPT ![p] = z]
               /\ trace' = [trace EXCEPT ![p] = <<>>]
               /\ event' = NoEvent
               /\ UNCHANGED <<nonblocking, sleep_ms, timeout_ms>>
    /\ UNCHANGED <<listener, stream, backlog, accepted>>
    /\ UNCHANGED <<codecVars, streamVars>>

\* thread::sleep(sleep_ms), which takes at least sleep_ms, then the deadline check
WaitSleep(p) ==
    /\ pc[p] = "w_sleep"
    /\ LET e == IF elapsed[p] + sleep_ms[p] > ElapsedCap
                THEN ElapsedCap ELSE elapsed[p] + sleep_ms[p]
           z == IF slept[p] + sleep_ms[p] > SleptCap
                THEN SleptCap ELSE slept[p] + sleep_ms[p]
       IN IF Expired(e, timeout_ms[p])
          THEN /\ pc' = [pc EXCEPT ![p] = "idle"]
               /\ event' = [NoEvent EXCEPT !.proc = p, !.to = "wait",
                                           !.ret = RetErr("TimedOut"), !.trace = trace[p],
                                           !.nb = nonblocking[p], !.sleep = sleep_ms[p],
                                           !.timeout = timeout_ms[p], !.elapsed = e,
                                           !.slept = z]
               /\ trace' = [trace EXCEPT ![p] = <<>>]
               /\ nonblocking' = [nonblocking EXCEPT ![p] = FALSE]
               /\ sleep_ms' = [sleep_ms EXCEPT ![p] = 0]
               /\ timeout_ms' = [timeout_ms EXCEPT ![p] = 0]
               /\ elapsed' = [elapsed EXCEPT ![p] = 0]
               /\ slept' = [slept EXCEPT ![p] = 0]
          ELSE /\ pc' = [pc EXCEPT ![p] = "w_try"]
               /\ elapsed' = [elapsed EXCEPT ![p] = e]
               /\ slept' = [slept EXCEPT ![p] = z]
               /\ trace' = [trace EXCEPT ![p] = <<>>]
               /\ event' = NoEvent
               /\ UNCHANGED <<nonblocking, sleep_ms, timeout_ms>>
    /\ UNCHANGED <<listener, stream, backlog, accepted>>
    /\ UNCHANGED <<codecVars, streamVars>>

\* time passes while p is inside wait_to_be_new
TimePasses(p) ==
    /\ InWait(p)
    /\ elapsed[p] < ElapsedCap
    /\ elapsed' = [elapsed EXCEPT ![p] = @ + 1]
    /\ event' = NoEvent
    /\ UNCHANGED <<pc, nonblocking, sleep_ms, timeout_ms, slept, trace, listener, stream,
                   backlog, accepted>>
    /\ UNCHANGED <<codecVars, streamVars>>

\* ------------------------------------------------------------------ Listener
\* local_socket::Listener::accept: the oldest pending connection, or an error
\* of the platform's that leaves it pending; with none pending a non-blocking
\* listener reports WouldBlock, a blocking one waits
AcceptResults(o) ==
    IF backlog[o] # <<>> THEN {"Ok", "Other"}
    ELSE IF listener[o] = "Both" THEN {"WouldBlock"} ELSE {}

\* the return of accept by o with result r
AcceptEvent(o, r) ==
    [NoEvent EXCEPT !.proc = o, !.to = "accept",
                    !.ret = [tag |-> IF r = "Ok" THEN "Some" ELSE "None", kind |-> r],
                    !.after = IF event.to = "accept" /\ event.proc = o
                              THEN event.ret.tag ELSE "none"]

\* faulty variant: an accept that unwraps, and takes the listener down on an error
AcceptUnwrap(o) ==
    /\ pc[o] = "idle"
    /\ listener[o] # "none"
    /\ \E r \in AcceptResults(o) :
          /\ IF r = "Ok"
             THEN /\ accepted' = [accepted EXCEPT ![o] = Head(backlog[o])]
                  /\ backlog' = [backlog EXCEPT ![o] = Tail(@)]
                  /\ UNCHANGED listener
             ELSE /\ accepted' = [accepted EXCEPT ![o] = NoConn]
                  /\ backlog' = [backlog EXCEPT ![o] = <<>>]
                  /\ listener' = [listener EXCEPT ![o] = "none"]
          /\ event' = AcceptEvent(o, r)
    /\ UNCHANGED <<pc, nonblocking, sleep_ms, timeout_ms, elapsed, slept, trace, stream>>
    /\ UNCHANGED <<codecVars, streamVars>>

\* Listener::accept: Some(stream) for the oldest pending connection; any error
\* is logged and turned to None
Accept(o) ==
    /\ pc[o] = "idle"
    /\ listener[o] # "none"
    /\ \E r \in AcceptResults(o) :
          /\ IF r = "Ok"
             THEN /\ accepted' = [accepted EXCEPT ![o] = Head(backlog[o])]
                  /\ backlog' = [backlog EXCEPT ![o] = Tail(@)]
             ELSE /\ accepted' = [accepted EXCEPT ![o] = NoConn]
                  /\ UNCHANGED backlog
          /\ event' = AcceptEvent(o, r)
    /\ UNCHANGED <<pc, nonblocking, sleep_ms, timeout_ms, elapsed, slept, trace,
                   listener, stream>>
    /\ UNCHANGED <<codecVars, streamVars>>

\* the owner drops its Listener and what it accepted (or exits): the name is
\* free again and the connections to it are reset
DropListener(o) ==
    /\ pc[o] = "idle"
    /\ listener[o] # "none"
    /\ listener' = [listener EXCEPT ![o] = "none"]
    /\ backlog' = [backlog EXCEPT ![o] = <<>>]
    /\ accepted' = [accepted EXCEPT ![o] = NoConn]
    /\ event' = NoEvent
    /\ UNCHANGED <<pc, nonblocking, sleep_ms, timeout_ms, elapsed, slept, trace, stream>>
    /\ UNCHANGED <<codecVars, streamVars>>

\* a client drops the Stream it got from Existing
DropStream(p) ==
    /\ pc[p] = "idle"
    /\ stream[p] # NoStream
    /\ stream' = [stream EXCEPT ![p] = NoStream]
    /\ backlog' = [o \in Procs |-> CloseConn(backlog[o], p)]
    /\ accepted' = [o \in Procs |-> ClosedBy(accepted[o], p)]
    /\ event' = NoEvent
    /\ UNCHANGED <<pc, nonblocking, sleep_ms, timeout_ms, elapsed, slept, trace, listener>>
    /\ UNCHANGED <<codecVars, streamVars>>

\* ------------------------------------------------------------------ Stream
\* the messages the clients of this model send
SendMsgs == {MsgNudge, MsgNum(Usize(1))}

\* the listener's side of p's stream is still there: pending or accepted
Connected(p) ==
    /\ stream[p] # NoStream
    /\ \/ \E i \in DOMAIN backlog[stream[p]] :
             backlog[stream[p]][i].from = p /\ backlog[stream[p]][i].open
       \/ accepted[stream[p]].from = p /\ accepted[stream[p]].open

\* bytes b are written on p's stream
Written(c, p, b) ==
    IF c.from = p /\ c.open THEN [c EXCEPT !.sent = @ \o b] ELSE c

\* Stream::send(msg) by a client that got Existing: Msg::write, whose unwrap
\* panics when the write fails; the panic takes the process down with all it
\* holds.  A client sends one message on its stream (examples/basic.rs).
Send(p) ==
    /\ pc[p] = "idle"
    /\ stream[p] # NoStream
    /\ IF Connected(p)
       THEN /\ \E m \in SendMsgs :
                 /\ backlog' = [o \in Procs |->
                                  [i \in DOMAIN backlog[o] |->
                                      Written(backlog[o][i], p, MsgWrite(m))]]
                 /\ accepted' = [o \in Procs |-> Written(accepted[o], p, MsgWrite(m))]
            /\ \A o \in Procs :
                 /\ \A i \in DOMAIN backlog[o] :
                      backlog[o][i].from = p /\ backlog[o][i].open => backlog[o][i].sent = <<>>
                 /\ accepted[o].from = p /\ accepted[o].open => accepted[o].sent = <<>>
            /\ event' = NoEvent
            /\ UNCHANGED <<stream, listener>>
       ELSE /\ stream' = [stream EXCEPT ![p] = NoStream]
            /\ listener' = [listener EXCEPT ![p] = "none"]
            /\ backlog' = [backlog EXCEPT ![p] = <<>>]
            /\ accepted' = [accepted EXCEPT ![p] = NoConn]
            /\ event' = [NoEvent EXCEPT !.proc = p, !.to = "panic"]
    /\ UNCHANGED <<pc, nonblocking, sleep_ms, timeout_ms, elapsed, slept, trace>>
    /\ UNCHANGED <<codecVars, streamVars>>

\* conn.recv() on the Stream the last accept returned (examples/basic.rs).
\* With nothing more to read, the end of the stream (the client is gone) and
\* WouldBlock (a non-blocking Stream) are errors of read_exact, so recv
\* returns None; a blocking Stream waits for the client to write or to go.  A
\* panic takes the process down with all it holds.
RecvAccepted(o) ==
    /\ pc[o] = "idle"
    /\ accepted[o].held
    /\ LET g == MsgRead(accepted[o].sent)
           r == Recv(g)
       IN  /\ listener[o] = "Both" \/ ~accepted[o].open \/ g.status # "Err"
           /\ IF r.status = "Panic"
              THEN /\ listener' = [listener EXCEPT ![o] = "none"]
                   /\ backlog' = [backlog EXCEPT ![o] = <<>>]
                   /\ accepted' = [accepted EXCEPT ![o] = NoConn]
                   /\ event' = [NoEvent EXCEPT !.proc = o, !.to = "panic",
                                               !.ret = [tag |-> "Panic", kind |-> "recv"]]
              ELSE /\ accepted' = [accepted EXCEPT
                                     ![o].sent = SubSeq(@, g.used + 1, Len(@))]
                   /\ event' = [NoEvent EXCEPT !.proc = o, !.to = "recv",
                                               !.ret = [tag |-> r.status, kind |-> r.msg.tag]]
                   /\ UNCHANGED <<listener, backlog>>
    /\ UNCHANGED <<pc, nonblocking, sleep_ms, timeout_ms, elapsed, slept, trace, stream>>
    /\ UNCHANGED <<codecVars, streamVars>>

\* ------------------------------------------------------------------ codec runs
\* the bytes and numbers the codec is run on
SampleBytes == {0, 65, 130, 195, 226, 255}
Payloads == UNION {[1..n -> SampleBytes] : n \in 0..MaxLen}
SampleNums ==
    {Usize(0), Usize(1), Usize(258), <<0, 0, 1, 0>>, <<65535, 65535, 65535, 65535>>}
Msgs ==
    {MsgNudge} \cup {MsgNum(w) : w \in SampleNums} \cup {MsgBytes(d) : d \in Payloads}
        \cup {MsgString(d) : d \in {x \in Payloads : Utf8Valid(x)}}
        \cup {MsgBytes(<<1, 2, 3>>)}

\* a String frame as a peer may write it, its payload any bytes
StringFrame(d) == <<2>> \o ToLeBytes(Usize(Len(d))) \o d

\* Stream::send(cmsg) on a fresh stream
CodecWrite ==
    /\ cstate = "new"
    /\ wire' = MsgWrite(cmsg)
    /\ cstate' = "written"
    /\ UNCHANGED <<cmsg, got, recvd>>
    /\ UNCHANGED <<chanVars, streamVars>>

\* a peer writes a String frame of its own making
CodecPeer ==
    /\ cstate = "new"
    /\ \E d \in Payloads : wire' = StringFrame(d)
    /\ cmsg' = MsgNudge
    /\ cstate' = "peer"
    /\ UNCHANGED <<got, recvd>>
    /\ UNCHANGED <<chanVars, streamVars>>

\* the first bytes and the following bytes of the streams a peer makes up
RawTags == {0, 3, 4, 5, 255}
RawTails ==
    {<<>>, <<0>>, <<3>>, [i \in 1..WordBytes |-> 0], [i \in 1..WordBytes + 1 |-> 255]}

\* a peer writes bytes of its own making: any first byte, anything after it
CodecRaw ==
    /\ cstate = "new"
    /\ \E t \in RawTags, d \in RawTails : wire' = <<t>> \o d
    /\ cmsg' = MsgNudge
    /\ cstate' = "raw"
    /\ UNCHANGED <<got, recvd>>
    /\ UNCHANGED <<chanVars, streamVars>>

\* the stream ends (the peer is gone), or for now holds (a non-blocking
\* stream), only the first k bytes of what Msg::write wrote, k short of all
CodecCut ==
    /\ cstate = "written"
    /\ \E k \in 0..Len(wire) - 1 : wire' = SubSeq(wire, 1, k)
    /\ cstate' = "cut"
    /\ UNCHANGED <<cmsg, got, recvd>>
    /\ UNCHANGED <<chanVars, streamVars>>

\* Stream::recv, that is Msg::read, of what the stream holds
CodecRead ==
    /\ cstate \in {"written", "peer", "raw", "cut"}
    /\ got' = MsgRead(wire)
    /\ recvd' = Recv(MsgRead(wire))
    /\ cstate' = CASE cstate = "written" -> "read"
                   [] cstate = "peer" -> "peer_read"
                   [] cstate = "raw" -> "raw_read"
                   [] cstate = "cut" -> "cut_read"
    /\ UNCHANGED <<cmsg, wire>>
    /\ UNCHANGED <<chanVars, streamVars>>

\* ------------------------------------------------------------------ streams of one listener
\* The Streams one listener has accepted, each with the client at its other
\* end; the clients are processes of their own, the Streams are all held by
\* the listener's process.
Conns == 1..NConns

\* the messages the clients send
StreamMsgs == {MsgNudge, MsgNum(Usize(3)), MsgNum(Usize(4))}

\* Msg::write: one write_all per part: the tag, the usize, the payload
MsgParts(m) ==
    <<<<Discriminant(m)>>>> \o
        CASE m.tag = "Num" -> <<ToLeBytes(m.num)>>
          [] m.tag \in {"Bytes", "String"} -> <<ToLeBytes(Usize(Len(m.data))), m.data>>
          [] OTHER -> <<>>

\* what a step of a Stream reports: send returned ("Returned") or panicked,
\* recv returned Some(msg) or None or panicked
NoStreamEvent == [conn |-> 0, op |-> "none", ret |-> "none", msg |-> MsgNudge]
StreamEvent(c, op, ret, m) == [conn |-> c, op |-> op, ret |-> ret, msg |-> m]

\* Stream::send(m) is called by the client of c
StreamSend(c) ==
    /\ s_client[c] = "idle"
    /\ Len(s_sent[c]) < MaxSends
    /\ \E m \in StreamMsgs :
         /\ s_msg' = [s_msg EXCEPT ![c] = m]
         /\ s_parts' = [s_parts EXCEPT ![c] = MsgParts(m)]
    /\ s_client' = [s_client EXCEPT ![c] = "sending"]
    /\ s_event' = NoStreamEvent
    /\ UNCHANGED <<s_written, s_sent, s_unread, s_rcvd, s_server, s_nb>>
    /\ UNCHANGED <<chanVars, codecVars>>

\* a write_all of some bytes fails when the other end of the stream is gone
WriteFails(c, part) == s_server[c] # "open" /\ part # <<>>

\* faulty variant: the result of a write dropped, the writes going on
StreamWriteIgnore(c) ==
    /\ s_client[c] = "sending"
    /\ LET part == Head(s_parts[c])
           rest == Tail(s_parts[c])
           ok == ~WriteFails(c, part)
       IN  /\ s_written' = [s_written EXCEPT ![c] = IF ok THEN @ \o part ELSE @]
           /\ s_unread' = [s_unread EXCEPT ![c] = IF ok THEN @ \o part ELSE @]
           /\ s_parts' = [s_parts EXCEPT ![c] = rest]
           /\ IF rest = <<>>
              THEN /\ s_client' = [s_client EXCEPT ![c] = "idle"]
                   /\ s_sent' = [s_sent EXCEPT ![c] = Append(@, s_msg[c])]
                   /\ s_event' = StreamEvent(c, "send", "Returned", s_msg[c])
              ELSE /\ s_event' = NoStreamEvent
                   /\ UNCHANGED <<s_client, s_sent>>
    /\ UNCHANGED <<s_msg, s_rcvd, s_server, s_nb>>
    /\ UNCHANGED <<chanVars, codecVars>>

\* Msg::write goes on: the next write_all, with the unwrap of its result; after
\* the last one Msg::write and Stream::send return.  A panic takes the client
\* down.
StreamWrite(c) ==
    /\ s_client[c] = "sending"
    /\ LET part == Head(s_parts[c])
           rest == Tail(s_parts[c])
       IN  IF WriteFails(c, part)
           THEN /\ s_client' = [s_client EXCEPT ![c] = "panicked"]
                /\ s_parts' = [s_parts EXCEPT ![c] = <<>>]
                /\ s_event' = StreamEvent(c, "send", "Panic", s_msg[c])
                /\ UNCHANGED <<s_written, s_unread, s_sent>>
           ELSE /\ s_written' = [s_written EXCEPT ![c] = @ \o part]
                /\ s_unread' = [s_unread EXCEPT ![c] = @ \o part]
                /\ s_parts' = [s_parts EXCEPT ![c] = rest]
                /\ IF rest = <<>>
                   THEN /\ s_client' = [s_client EXCEPT ![c] = "idle"]
                        /\ s_sent' = [s_sent EXCEPT ![c] = Append(@, s_msg[c])]
                        /\ s_event' = StreamEvent(c, "send", "Returned", s_msg[c])
                   ELSE /\ s_event' = NoStreamEvent
                        /\ UNCHANGED <<s_client, s_sent>>
    /\ UNCHANGED <<s_msg, s_rcvd, s_server, s_nb>>
    /\ UNCHANGED <<chanVars, codecVars>>

\* the client's end of c is gone: dropped, or lost with the client
ClientGone(c) == s_client[c] \in {"dropped", "panicked"}

\* Stream::recv on the listener's side of c.  What has not arrived is an
\* end of stream to read_exact when the client is gone, WouldBlock on a
\* non-blocking stream (either way an Err, the bytes read so far used up),
\* and is waited for on a blocking one.  A panic takes the listener's
\* process down, all its Streams with it.
StreamRecv(c) ==
    /\ s_server[c] = "open"
    /\ LET g == MsgRead(s_unread[c])
           r == Recv(g)
       IN  /\ s_nb \/ ClientGone(c) \/ g.status # "Err"
           /\ s_unread' = [s_unread EXCEPT ![c] = SubSeq(@, g.used + 1, Len(@))]
           /\ s_rcvd' = [s_rcvd EXCEPT ![c] = IF r.status = "Some" THEN Append(@, r.msg) ELSE @]
           /\ s_server' = IF r.status = "Panic"
                          THEN [d \in Conns |-> IF s_server[d] = "open" THEN "panicked"
                                                ELSE s_server[d]]
                          ELSE s_server
           /\ s_event' = StreamEvent(c, "recv", r.status, r.msg)
    /\ UNCHANGED <<s_client, s_msg, s_parts, s_written, s_sent, s_nb>>
    /\ UNCHANGED <<chanVars, codecVars>>

\* the client drops its Stream (examples/basic.rs: at the end of main)
StreamClientDrop(c) ==
    /\ s_client[c] = "idle"
    /\ s_client' = [s_client EXCEPT ![c] = "dropped"]
    /\ s_event' = NoStreamEvent
    /\ UNCHANGED <<s_msg, s_parts, s_written, s_sent, s_unread, s_rcvd, s_server, s_nb>>
    /\ UNCHANGED <<chanVars, codecVars>>

\* the listener's process drops its Stream of c (examples/basic.rs: at the
\* end of the loop body)
StreamServerDrop(c) ==
    /\ s_server[c] = "open"
    /\ s_server' = [s_server EXCEPT ![c] = "dropped"]
    /\ s_event' = NoStreamEvent
    /\ UNCHANGED <<s_client, s_msg, s_parts, s_written, s_sent, s_unread, s_rcvd, s_nb>>
    /\ UNCHANGED <<chanVars, codecVars>>

\* no Stream of this layer exists
StreamsOff ==
    /\ s_client = [c \in Conns |-> "off"]
    /\ s_server = [c \in Conns |-> "off"]
    /\ s_msg = [c \in Conns |-> MsgNudge]
    /\ s_parts = [c \in Conns |-> <<>>]
    /\ s_written = [c \in Conns |-> <<>>]
    /\ s_sent = [c \in Conns |-> <<>>]
    /\ s_unread = [c \in Conns |-> <<>>]
    /\ s_rcvd = [c \in Conns |-> <<>>]
    /\ s_nb = FALSE
    /\ s_event = NoStreamEvent

\* ------------------------------------------------------------------ specifications
ChanInit ==
    /\ pc = [p \in Procs |-> "idle"]
    /\ nonblocking = [p \in Procs |-> FALSE]
    /\ sleep_ms = [p \in Procs |-> 0]
    /\ timeout_ms = [p \in Procs |-> 0]
    /\ elapsed = [p \in Procs |-> 0]
    /\ slept = [p \in Procs |-> 0]
    /\ trace = [p \in Procs |-> <<>>]
    /\ listener = [p \in Procs |-> "none"]
    /\ stream = [p \in Procs |-> NoStream]
    /\ backlog = [p \in Procs |-> <<>>]
    /\ accepted = [p \in Procs |-> NoConn]
    /\ event = NoEvent

CodecOff ==
    /\ cstate = "off"
    /\ cmsg = MsgNudge
    /\ wire = <<>>
    /\ got = NoRead
    /\ recvd = NoRecv

Init == ChanInit /\ CodecOff /\ StreamsOff

Next ==
    \E p \in Procs :
        \/ Connect(p)
        \/ Bind(p)
        \/ WaitToBeNew(p)
        \/ WaitExisting(p)
        \/ WaitSleep(p)
        \/ TimePasses(p)
        \/ Accept(p)
        \/ DropListener(p)
        \/ DropStream(p)
        \/ Send(p)
        \/ RecvAccepted(p)

Spec == Init /\ [][Next]_vars

\* the codec alone: one message written and read back, or a peer's frame read
InitCodec ==
    /\ ChanInit
    /\ cstate = "new"
    /\ cmsg \in Msgs
    /\ wire = <<>>
    /\ got = NoRead
    /\ recvd = NoRecv
    /\ StreamsOff

NextCodec ==
    \/ CodecWrite
    \/ CodecPeer
    \/ CodecRaw
    \/ CodecCut
    \/ CodecRead

SpecCodec == InitCodec /\ [][NextCodec]_vars

\* concurrent first calls: every process calls establish_endpoint once while
\* nobody is bound, and the platform reports nothing but what the namespace
\* dictates
InitRace ==
    /\ pc = [p \in Procs |-> "start"]
    /\ nonblocking = [p \in Procs |-> FALSE]
    /\ sleep_ms = [p \in Procs |-> 0]
    /\ timeout_ms = [p \in Procs |-> 0]
    /\ elapsed = [p \in Procs |-> 0]
    /\ slept = [p \in Procs |-> 0]
    /\ trace = [p \in Procs |-> <<>>]
    /\ listener = [p \in Procs |-> "none"]
    /\ stream = [p \in Procs |-> NoStream]
    /\ backlog = [p \in Procs |-> <<>>]
    /\ accepted = [p \in Procs |-> NoConn]
    /\ event = NoEvent
    /\ CodecOff
    /\ StreamsOff

\* the one call of p
RaceConnect(p) ==
    /\ pc[p] = "start"
    /\ Connect(p)
    /\ event'.ret.kind # "PermissionDenied"

NextRace ==
    \E p \in Procs :
        \/ RaceConnect(p)
        \/ Bind(p)
        \/ Accept(p)
        \/ Send(p)

SpecRace == InitRace /\ [][NextRace]_vars

\* The Streams of one listener: NConns clients have connected and have been
\* accepted; the listener was made blocking or non-blocking ("Both": its
\* Streams are as it is).
InitStreams ==
    /\ ChanInit
    /\ CodecOff
    /\ s_client = [c \in Conns |-> "idle"]
    /\ s_server = [c \in Conns |-> "open"]
    /\ s_msg = [c \in Conns |-> MsgNudge]
    /\ s_parts = [c \in Conns |-> <<>>]
    /\ s_written = [c \in Conns |-> <<>>]
    /\ s_sent = [c \in Conns |-> <<>>]
    /\ s_unread = [c \in Conns |-> <<>>]
    /\ s_rcvd = [c \in Conns |-> <<>>]
    /\ s_nb \in BOOLEAN
    /\ s_event = NoStreamEvent

NextStreams ==
    \/ \E c \in Conns : StreamSend(c)
    \/ \E c \in Conns : StreamWrite(c)
    \/ \E c \in Conns : StreamRecv(c)
    \/ \E c \in Conns : StreamClientDrop(c)
    \/ \E c \in Conns : StreamServerDrop(c)

SpecStreams == InitStreams /\ [][NextStreams]_vars

\* ------------------------------------------------------------------ C1
\* C1 (as the specification states it): once every one of the concurrent
\* calls has returned, exactly one process holds the Listener (its call
\* returned New) and every other process holds a Stream connected to that
\* Listener (its call returned Existing); no call returned an error.
C1_MutualExclusion ==
    (\A p \in Procs : pc[p] = "idle") =>
        \E o \in Procs :
            /\ listener[o] # "none"
            /\ \A q \in Procs \ {o} : listener[q] = "none" /\ stream[q] = o

\* ------------------------------------------------------------------ returns
\* the connect results that mean "nobody is there"
Absent == {"NotFound", "ConnectionRefused"}

\* e is a return of establish_endpoint: to its user, or to wait_to_be_new
\* (which goes on, or returns what it got)
IsEstablishReturn(e) ==
    /\ e.to \in {"user", "loop", "wait"}
    /\ e.ret # RetErr("TimedOut")
    /\ Len(e.trace) >= 1

ConnectEntry(r, b) == [op |-> "connect", res |-> r, bound |-> b]
BindEntry(r, b) == [op |-> "bind", res |-> r, bound |-> b]
ClosedUnsent == [from |-> NoProc, open |-> FALSE, sent |-> <<>>, held |-> TRUE, poll |-> TRUE]

\* ------------------------------------------------------------------ C2
\* C2 (amended): at most one live Listener is bound to the identifier in
\* every reachable state, and a call of establish_endpoint whose connect ran
\* while that Listener was bound never returns New: it returns Existing, or
\* the error of its connect when that failed for a reason other than
\* NotFound / ConnectionRefused.
C2_SingleListener ==
    /\ Cardinality(Holders) <= 1
    /\ (IsEstablishReturn(event) /\ event.trace[1].bound) =>
          /\ event.ret.tag # "New"
          /\ \/ event.ret = RetExisting /\ event.trace[1].res = "Ok"
             \/ /\ event.ret = RetErr(event.trace[1].res)
                /\ event.trace[1].res \notin Absent \cup {"Ok"}

\* a call made while another process holds the Listener has returned Existing
C2_Witness ==
    /\ event.to = "user"
    /\ event.ret = RetExisting
    /\ event.trace[1].bound
    /\ Holders = {stream[event.proc]}
    /\ stream[event.proc] # event.proc

\* C2 (as stated): ... every call that starts while the Listener is bound
\* returns Existing.
C2_AlwaysExisting ==
    /\ Cardinality(Holders) <= 1
    /\ (IsEstablishReturn(event) /\ event.trace[1].bound) => event.ret = RetExisting

\* ------------------------------------------------------------------ C3
\* what a step in which p's call of establish_endpoint returns has done
C3_Step(p) ==
    (event'.proc = p /\ IsEstablishReturn(event')) =>
        /\ event'.ret.tag = "Existing" =>
              /\ event'.trace = <<ConnectEntry("Ok", TRUE)>>
              /\ listener' = listener
              /\ stream[p] = NoStream
              /\ stream'[p] = Holder
              /\ backlog'[Holder] = Append(backlog[Holder], NewConn(p))
        /\ event'.ret.tag = "New" =>
              /\ Len(event'.trace) = 2
              /\ event'.trace[1].op = "connect"
              /\ event'.trace[1].res \in Absent
              /\ event'.trace[2] = BindEntry("Ok", FALSE)
              /\ listener[p] = "none"
              /\ listener'[p] = (IF event'.nb THEN "Both" ELSE "Neither")
              /\ \A q \in Procs \ {p} : listener'[q] = listener[q]

\* C3: a call returns Existing only when its one operation was a connect that
\* succeeded; the Stream it returns is that connection, newly pending at the
\* holder, and no listener changed.  A call returns New only when its connect
\* failed with NotFound or ConnectionRefused and its own bind succeeded; the
\* Listener it then holds is in mode Both when nonblocking was true and in
\* mode Neither when it was false.
C3_Classification == [][\A p \in Procs : C3_Step(p)]_vars

\* a call with nonblocking = true has returned New and holds a Both listener
C3_Witness ==
    /\ event.ret = RetNew
    /\ event.nb
    /\ listener[event.proc] = "Both"
    /\ event.trace[1].res = "ConnectionRefused"

\* ------------------------------------------------------------------ C4
\* what a step that returns after such a connect has done
C4_Step ==
    (IsEstablishReturn(event') /\ event'.trace[1].res \notin Absent \cup {"Ok"}) =>
        /\ event'.ret = RetErr(event'.trace[1].res)
        /\ Len(event'.trace) = 1
        /\ event'.trace[1].op = "connect"
        /\ listener' = listener
        /\ backlog' = backlog
        /\ accepted' = accepted
        /\ stream' = stream

\* C4: a call whose connect failed with a kind other than NotFound or
\* ConnectionRefused returns that very error; connect was its only operation
\* (no bind), and listeners, pending connections and streams are as before.
C4_OtherErrorsPropagate == [][C4_Step]_vars

\* a user's call has returned PermissionDenied while nobody was bound
C4_Witness ==
    /\ event.to = "user"
    /\ event.ret = RetErr("PermissionDenied")
    /\ ~event.trace[1].bound
    /\ Holders = {}

\* ------------------------------------------------------------------ C5
\* the operations a call may have made when it returns
C5_Shape(tr) ==
    /\ Len(tr) \in {1, 2}
    /\ tr[1].op = "connect"
    /\ Len(tr) = 2 => tr[2].op = "bind" /\ tr[1].res \in Absent

\* C5: the operations of a call are one connect, or one connect that failed
\* with NotFound or ConnectionRefused followed by one bind; a call that is
\* about to bind has made just that connect, and a call whose bind failed has
\* returned: the process is back at its caller with nothing in progress.
C5_SingleAttempt ==
    /\ \A p \in Procs :
          /\ Len(trace[p]) <= 1
          /\ pc[p] \in {"bind", "w_bind"} =>
                /\ Len(trace[p]) = 1
                /\ trace[p][1].op = "connect"
                /\ trace[p][1].res \in Absent
          /\ pc[p] \in {"w_existing", "w_sleep"} => trace[p] = <<ConnectEntry("Ok", TRUE)>>
          /\ pc[p] \in {"idle", "start", "w_try"} => trace[p] = <<>>
    /\ IsEstablishReturn(event) => C5_Shape(event.trace)
    /\ (IsEstablishReturn(event) /\ Len(event.trace) = 2 /\ event.trace[2].res # "Ok") =>
          /\ pc[event.proc] = "idle"
          /\ trace[event.proc] = <<>>

\* a user's call has returned after a connect and a bind that failed
C5_Witness ==
    /\ event.to = "user"
    /\ Len(event.trace) = 2
    /\ event.trace[2].res = "AddrInUse"
    /\ pc[event.proc] = "idle"

\* ------------------------------------------------------------------ C6
\* C6: a call whose connect failed with NotFound or ConnectionRefused and
\* whose bind then failed returns the error of the bind, and the process
\* holds no Listener (and no Stream from this call) afterwards.
C6_BindFailure ==
    (IsEstablishReturn(event) /\ Len(event.trace) = 2 /\ event.trace[2].res # "Ok") =>
        /\ event.trace[1].res \in Absent
        /\ event.ret = RetErr(event.trace[2].res)
        /\ listener[event.proc] = "none"
        /\ stream[event.proc] = NoStream

\* another process bound the name between this call's connect and its bind
C6_Witness ==
    /\ IsEstablishReturn(event)
    /\ event.trace = <<ConnectEntry("NotFound", FALSE), BindEntry("AddrInUse", TRUE)>>
    /\ event.ret = RetErr("AddrInUse")
    /\ Holders # {}
    /\ event.proc \notin Holders

\* ------------------------------------------------------------------ C7
\* what a step of p inside wait_to_be_new may do
C7_Step(p) ==
    /\ (pc[p] \in {"w_try", "w_bind"} /\ pc'[p] # pc[p]) =>
          \/ pc[p] = "w_try" /\ pc'[p] = "w_bind" /\ event' = NoEvent
          \/ /\ pc[p] = "w_try"
             /\ pc'[p] = "w_existing"
             /\ event'.proc = p
             /\ event'.to = "loop"
             /\ event'.ret = RetExisting
             /\ stream'[p] # NoStream
          \/ /\ pc'[p] = "idle"
             /\ event'.proc = p
             /\ event'.to = "wait"
             /\ \/ /\ event'.ret = RetNew
                   /\ pc[p] = "w_bind"
                   /\ listener'[p] # "none"
                \/ /\ event'.ret = RetErr(event'.trace[Len(event'.trace)].res)
                   /\ event'.ret.kind # "Ok"
                   /\ listener'[p] = listener[p]
    /\ (pc[p] = "w_bind" /\ listener'[p] # listener[p]) => event'.ret = RetNew
    /\ (pc[p] = "w_existing" /\ pc'[p] # pc[p]) =>
          /\ pc'[p] = "w_sleep"
          /\ stream'[p] = NoStream
          /\ \A o \in Procs :
                /\ DOMAIN backlog'[o] = DOMAIN backlog[o]
                /\ \A i \in DOMAIN backlog[o] :
                      backlog'[o][i] = IF backlog[o][i].from = p /\ backlog[o][i].open
                                       THEN ClosedUnsent ELSE backlog[o][i]
                /\ accepted'[o] = IF accepted[o].from = p /\ accepted[o].open
                                  THEN ClosedUnsent ELSE accepted[o]
    /\ (InWait(p) /\ stream[p] # NoStream) => pc[p] = "w_existing"

\* C7: inside wait_to_be_new, the step in which establish_endpoint yields New
\* is the step in which wait_to_be_new returns that Listener; Existing is
\* handed to the loop, which writes nothing on the stream, drops it (the
\* holder sees a closed connection that carried no byte) and goes on to
\* sleep; an error of connect or bind is returned by wait_to_be_new in the
\* step that produced it, with no sleep and no further attempt between.
C7_WaitOutcomes == [][\A p \in Procs : C7_Step(p)]_vars

\* a waiter got Existing and dropped the stream: the holder has a closed
\* connection pending that carried nothing
C7_Witness ==
    \E p \in Procs, o \in Procs :
        /\ o # p
        /\ pc[p] = "w_sleep"
        /\ stream[p] = NoStream
        /\ listener[o] # "none"
        /\ \E i \in DOMAIN backlog[o] : backlog[o][i] = ClosedUnsent

\* ------------------------------------------------------------------ C8
\* C8: a TimedOut error is returned only by wait_to_be_new, only when the
\* time elapsed since the call began exceeds timeout_ms, and only after an
\* attempt whose one operation was a connect that succeeded (Existing).
C8_TimedOutOnly ==
    event.ret = RetErr("TimedOut") =>
        /\ event.to = "wait"
        /\ event.elapsed > event.timeout
        /\ event.trace = <<ConnectEntry("Ok", TRUE)>>
        /\ pc[event.proc] = "idle"

\* a call with the largest timeout and no sleep has timed out
C8_Witness ==
    /\ event.ret = RetErr("TimedOut")
    /\ event.timeout = MaxTimeout
    /\ event.sleep = 0
    /\ event.elapsed = MaxTimeout + 1

\* ------------------------------------------------------------------ a held identifier
\* The identifier is held throughout: one process, the existing instance,
\* holds the Listener from the start, never drops it and does nothing but
\* accept (examples/basic.rs); the others are clients and waiters.  No bind
\* is ever reached, so NextHeld has none.
Owner == CHOOSE o \in Procs : \A q \in Procs : o <= q

InitHeld ==
    /\ pc = [p \in Procs |-> "idle"]
    /\ nonblocking = [p \in Procs |-> FALSE]
    /\ sleep_ms = [p \in Procs |-> 0]
    /\ timeout_ms = [p \in Procs |-> 0]
    /\ elapsed = [p \in Procs |-> 0]
    /\ slept = [p \in Procs |-> 0]
    /\ trace = [p \in Procs |-> <<>>]
    /\ \E nb \in BOOLEAN :
          listener = [p \in Procs |-> IF p = Owner THEN NbMode(nb) ELSE "none"]
    /\ stream = [p \in Procs |-> NoStream]
    /\ backlog = [p \in Procs |-> <<>>]
    /\ accepted = [p \in Procs |-> NoConn]
    /\ event = NoEvent
    /\ CodecOff
    /\ StreamsOff

NextHeld ==
    \/ Accept(Owner)
    \/ RecvAccepted(Owner)
    \/ \E p \in Procs \ {Owner} :
          \/ Connect(p)
          \/ WaitToBeNew(p)
          \/ WaitExisting(p)
          \/ WaitSleep(p)
          \/ TimePasses(p)
          \/ DropStream(p)
          \/ Send(p)

\* the existing instance keeps accepting, a waiter that can take a step of
\* its loop takes it (a connect that finds the pending queue full waits for
\* room), and time advances
FairHeld ==
    /\ WF_vars(Accept(Owner))
    /\ \A p \in Procs \ {Owner} :
          /\ SF_vars(InWait(p) /\ Connect(p))
          /\ WF_vars(WaitExisting(p))
          /\ WF_vars(WaitSleep(p))
          /\ WF_vars(TimePasses(p))

SpecHeld == InitHeld /\ [][NextHeld]_vars /\ FairHeld

FramePayload(s) == SubSeq(s, 2 + WordBytes, Len(s))

\* C10: what Msg::read makes of the bytes Msg::write wrote is Ok, a Msg equal
\* to the one written, and it uses exactly the bytes written: all of them, and
\* no byte that follows them on the stream.  A String frame whose payload is
\* not UTF-8 is read as Ok too: as the String with each ill-formed piece
\* replaced by U+FFFD, and a well-formed payload unchanged.
C10_RoundTrip ==
    /\ cstate = "read" =>
          /\ got = ReadOk(cmsg, Len(wire))
          /\ MsgRead(wire \o <<0>>) = got
          /\ MsgRead(wire \o <<255, 255>>) = got
    /\ cstate = "peer_read" =>
          /\ got.status = "Ok"
          /\ got.msg.tag = "String"
          /\ got.used = Len(wire)
          /\ Utf8Valid(got.msg.data)
          /\ Utf8Valid(FramePayload(wire)) => got.msg.data = FramePayload(wire)
          /\ FramePayload(wire) = <<255>> => got.msg.data = <<239, 191, 189>>
          /\ FramePayload(wire) = <<65, 255>> => got.msg.data = <<65, 239, 191, 189>>
          /\ FramePayload(wire) = <<195, 65>> => got.msg.data = <<239, 191, 189, 65>>
          /\ FramePayload(wire) = <<226, 130>> => got.msg.data = <<239, 191, 189>>
          /\ FramePayload(wire) = <<130, 130>> =>
                got.msg.data = <<239, 191, 189, 239, 191, 189>>

\* a String of one two-byte character was written and read back
C10_Witness ==
    /\ cstate = "read"
    /\ cmsg = MsgString(<<195, 130>>)
    /\ wire = <<2, 2, 0, 0, 0, 0, 0, 0, 0, 195, 130>>
    /\ got.msg = cmsg

\* ------------------------------------------------------------------ C11
\* C11: the bytes Msg::write writes for a Msg are one tag byte (0 Num,
\* 1 Bytes, 2 String, 3 Nudge), then nothing for Nudge, the value in 8 bytes
\* lowest first for Num, and for Bytes and String the byte count in 8 bytes
\* lowest first followed by exactly the payload; Bytes([1,2,3]) is written as
\* [1, 3,0,0,0,0,0,0,0, 1,2,3].
C11_WireLayout ==
    cstate \in {"written", "read"} =>
        /\ \A i \in DOMAIN wire : wire[i] \in 0..255
        /\ cmsg.tag = "Nudge" => wire = <<3>>
        /\ cmsg.tag = "Num" =>
              /\ Len(wire) = 9
              /\ wire[1] = 0
              /\ \A j \in 1..4 : wire[2 * j] + 256 * wire[2 * j + 1] = cmsg.num[j]
        /\ cmsg.tag \in {"Bytes", "String"} =>
              /\ Len(wire) = 9 + Len(cmsg.data)
              /\ wire[1] = (IF cmsg.tag = "Bytes" THEN 1 ELSE 2)
              /\ wire[2] = Len(cmsg.data)
              /\ \A i \in 3..9 : wire[i] = 0
              /\ \A i \in 1..Len(cmsg.data) : wire[9 + i] = cmsg.data[i]
        /\ cmsg = MsgBytes(<<1, 2, 3>>) => wire = <<1, 3, 0, 0, 0, 0, 0, 0, 0, 1, 2, 3>>
        /\ cmsg = MsgString(<<65>>) => wire = <<2, 1, 0, 0, 0, 0, 0, 0, 0, 65>>
        /\ cmsg = MsgNum(Usize(258)) => wire = <<0, 2, 1, 0, 0, 0, 0, 0, 0>>

\* Bytes([1,2,3]) has been written
C11_Witness ==
    /\ cstate = "written"
    /\ cmsg = MsgBytes(<<1, 2, 3>>)
    /\ wire = <<1, 3, 0, 0, 0, 0, 0, 0, 0, 1, 2, 3>>

\* ------------------------------------------------------------------ C12
\* C12: recv on a stream that holds the byte 0 and eight zero bytes returns
\* Some(Num(0)); on a stream whose first byte is 3 it returns Some(Nudge) and
\* has read that one byte only, whatever follows; on a stream whose first byte
\* is 4 or more it panics whatever follows: it returns neither None nor a Msg.
C12_DecodeByTag ==
    cstate = "raw_read" =>
        /\ wire = <<0, 0, 0, 0, 0, 0, 0, 0, 0>> =>
              /\ recvd = RecvSome(MsgNum(<<0, 0, 0, 0>>))
              /\ got.used = 9
        /\ wire[1] = 3 =>
              /\ recvd = RecvSome(MsgNudge)
              /\ got.used = 1
        /\ wire[1] >= 4 =>
              /\ recvd.status = "Panic"
              /\ got.status = "Panic"
        /\ recvd.status = "Panic" => wire[1] >= 4

\* recv has panicked on a first byte of 4 followed by eight zero bytes
C12_Witness ==
    /\ cstate = "raw_read"
    /\ wire = <<4, 0, 0, 0, 0, 0, 0, 0, 0>>
    /\ recvd.status = "Panic"

\* ------------------------------------------------------------------ C13
\* s is the beginning of t
IsPrefix(s, t) == Len(s) <= Len(t) /\ SubSeq(t, 1, Len(s)) = s

\* C13: when the stream gives out before the tag, inside the length prefix or
\* the value, or inside the payload (it holds only a proper beginning of what
\* Msg::write wrote), recv returns None: it does not panic and returns no
\* Msg.  recv returns Some(msg) only when the stream held the tag and the
\* whole payload of msg, and those are the bytes it has read.
C13_RecvNeverAborts ==
    /\ cstate = "cut_read" =>
          /\ Len(wire) < Len(MsgWrite(cmsg))
          /\ recvd = RecvNone
          /\ got.status = "Err"
    /\ (cstate \in {"read", "cut_read", "raw_read"} /\ recvd.status = "Some") =>
          /\ IsPrefix(MsgWrite(recvd.msg), wire)
          /\ got.used = Len(MsgWrite(recvd.msg))
    /\ (cstate = "raw_read" /\ wire[1] \in {0, 1, 2} /\ Len(wire) < 1 + WordBytes) =>
          recvd = RecvNone

\* the stream gave out inside the payload of a Bytes message
C13_Witness ==
    /\ cstate = "cut_read"
    /\ cmsg = MsgBytes(<<1, 2, 3>>)
    /\ wire = <<1, 3, 0, 0, 0, 0, 0, 0, 0, 1>>
    /\ recvd = RecvNone

\* ------------------------------------------------------------------ C14
\* what a step in which accept returns has done
C14_Step ==
    event'.to = "accept" =>
        LET o == event'.proc IN
        /\ listener[o] # "none"
        /\ listener' = listener
        /\ stream' = stream
        /\ event'.ret.tag = "None" =>
              /\ event'.ret.kind # "Ok"
              /\ backlog' = backlog
              /\ accepted'[o] = NoConn
        /\ event'.ret.tag = "Some" =>
              /\ backlog[o] # <<>>
              /\ accepted'[o] = Head(backlog[o])
              /\ accepted'[o].held
              /\ backlog'[o] = Tail(backlog[o])
        /\ (backlog[o] = <<>>) => (listener[o] = "Both" /\ event'.ret.tag = "None")

\* C14: accept returns None on any error and leaves the listener bound and
\* the pending connections pending: right after a None the name is still
\* bound (a connect is answered by the listener, not by NotFound), and with a
\* connection pending the next accept can return it.  On a listener made with
\* nonblocking = true (mode Both) with nothing pending accept does not wait:
\* it can return, and it returns None.
C14_AcceptNonFatal ==
    /\ [][C14_Step]_vars
    /\ [](\A o \in Procs :
            /\ (event.to = "accept" /\ event.proc = o /\ event.ret.tag = "None") =>
                  /\ listener[o] # "none"
                  /\ "Ok" \in ConnectResults
                  /\ ConnectResults \cap {"NotFound", "ConnectionRefused"} = {}
                  /\ backlog[o] # <<>> =>
                        ENABLED (Accept(o) /\ event'.ret.tag = "Some")
            /\ (pc[o] = "idle" /\ listener[o] = "Both" /\ backlog[o] = <<>>) =>
                  ENABLED (Accept(o) /\ event'.ret.tag = "None"))

\* an accept has returned a connection right after an accept on the same
\* listener returned None
C14_Witness ==
    /\ event.to = "accept"
    /\ event.ret.tag = "Some"
    /\ event.after = "None"
    /\ accepted[event.proc].held
    /\ listener[event.proc] # "none"

\* ------------------------------------------------------------------ C15
\* the frames of a sequence of Msgs, one after the other
RECURSIVE Frames(_)
Frames(ms) == IF ms = <<>> THEN <<>> ELSE MsgWrite(Head(ms)) \o Frames(Tail(ms))

\* the parts of one Msg::write, one after the other
RECURSIVE Flat(_)
Flat(ps) == IF ps = <<>> THEN <<>> ELSE Head(ps) \o Flat(Tail(ps))

\* the bytes on c that follow the frames of the Msgs whose send has returned
Done(c) == SubSeq(s_written[c], Len(Frames(s_sent[c])) + 1, Len(s_written[c]))

C15_Step ==
    \A c \in Conns :
        \* send returns only with the whole frame of its Msg written
        /\ (s_sent'[c] # s_sent[c] \/ s_event' = StreamEvent(c, "send", "Returned", s_event'.msg))
              => /\ s_client[c] = "sending"
                 /\ s_client'[c] = "idle"
                 /\ s_event' = StreamEvent(c, "send", "Returned", s_msg[c])
                 /\ s_sent'[c] = Append(s_sent[c], s_msg[c])
                 /\ s_written'[c] = Frames(s_sent'[c])
                 /\ Done(c)' = <<>>
        \* a write that fails is a panic, whichever part it was to write
        /\ (/\ s_client[c] = "sending"
            /\ WriteFails(c, Head(s_parts[c]))
            /\ s_parts'[c] # s_parts[c])
              => /\ s_event' = StreamEvent(c, "send", "Panic", s_msg[c])
                 /\ s_client'[c] = "panicked"
                 /\ s_sent'[c] = s_sent[c]
                 /\ s_written'[c] = s_written[c]
        \* and the call that panicked never returns
        /\ s_client[c] = "panicked"
              => s_client'[c] = "panicked" /\ s_sent'[c] = s_sent[c]

\* C15: Stream::send panics when a write of the tag, the length or the
\* payload fails, and then never returns; when it returns, every byte of the
\* frame of its Msg has been written, and between its writes the bytes
\* written and those still to write make up that frame.
C15_SendAborts ==
    /\ [][C15_Step]_vars
    /\ [](\A c \in Conns :
            /\ IsPrefix(Frames(s_sent[c]), s_written[c])
            /\ s_client[c] = "sending" => Done(c) \o Flat(s_parts[c]) = MsgWrite(s_msg[c])
            /\ s_client[c] \in {"idle", "dropped"} => Done(c) = <<>>
            /\ s_client[c] = "panicked" =>
                  /\ IsPrefix(Done(c), MsgWrite(s_msg[c]))
                  /\ Done(c) # MsgWrite(s_msg[c]))

\* a send panicked at the write of the usize, its tag written, after a send
\* on the same Stream had returned
C15_Witness ==
    /\ s_event.op = "send"
    /\ s_event.ret = "Panic"
    /\ s_event.msg.tag = "Num"
    /\ Done(s_event.conn) = <<0>>
    /\ Len(s_sent[s_event.conn]) = 1

\* ------------------------------------------------------------------ C16
\* the Msgs the client of c has given to send, in order
Passed(c) ==
    s_sent[c] \o (IF s_client[c] \in {"sending", "panicked"} THEN <<s_msg[c]>> ELSE <<>>)

\* C16: with several clients connected to one listener, every message recv
\* has returned on the accepted Stream of a connection was sent by the client
\* of that connection, the i-th one returned being the i-th one sent.
C16_OwnMessagesInOrder ==
    \A c \in Conns :
        \A i \in 1..Len(s_rcvd[c]) :
            /\ i <= Len(Passed(c))
            /\ s_rcvd[c][i] = Passed(c)[i]

\* what does hold between the Streams: a step of one connection leaves the
\* others as they are (but for a panic of recv, which takes all the Streams of
\* the listener's process down), recv makes its result of the bytes of its own
\* connection alone, and these are the last of what its own client wrote
C16_Isolated ==
    /\ [](\A c \in Conns :
            \E k \in 0..Len(s_written[c]) :
                s_unread[c] = SubSeq(s_written[c], k + 1, Len(s_written[c])))
    /\ [][\A c \in Conns :
            LET OfConn(d) == <<s_client[d], s_msg[d], s_parts[d], s_written[d], s_sent[d],
                               s_unread[d], s_rcvd[d]>>
            IN  /\ (OfConn(c)' # OfConn(c) \/ s_event'.conn = c)
                      => \A d \in Conns \ {c} : OfConn(d)' = OfConn(d)
                /\ (s_event'.conn = c /\ s_event'.op = "recv")
                      => LET r == Recv(MsgRead(s_unread[c]))
                         IN  /\ s_event'.ret = r.status
                             /\ s_event'.msg = r.msg
                             /\ s_event'.ret # "Panic" => s_server' = s_server
                /\ (s_server'[c] # s_server[c] /\ s_event'.ret # "Panic")
                      => \A d \in Conns \ {c} : s_server'[d] = s_server[d]]_vars

\* ------------------------------------------------------------------ C17
\* the listener's side of c stands at the first byte of a frame: what has
\* been read of c so far is the frames of the first k Msgs given to send
AtTag(c) ==
    \E k \in 0..Len(Passed(c)) :
        Len(s_written[c]) - Len(s_unread[c]) = Len(Frames(SubSeq(Passed(c), 1, k)))

\* C17: on every Stream the Msgs recv has returned are the first ones of
\* those the peer sent, in the same order, and a recv that returned None has
\* left the Stream at the tag of a frame.
C17_FramingSurvives ==
    \A c \in Conns :
        /\ IsPrefix(s_rcvd[c], s_sent[c])
        /\ (s_event.conn = c /\ s_event.op = "recv" /\ s_event.ret = "None") => AtTag(c)

\* what does hold: on blocking Streams, where recv waits for the whole frame
C17_BlockingInOrder ==
    ~s_nb => \A c \in Conns : IsPrefix(s_rcvd[c], s_sent[c]) /\ AtTag(c)

\* ------------------------------------------------------------------ takeover
\* The process that held the Listener has just dropped it while every
\* process of Procs is inside wait_to_be_new, about to make an attempt, its
\* deadline not elapsed; the platform reports nothing but what the namespace
\* dictates.
InitTakeover ==
    /\ pc = [p \in Procs |-> "w_try"]
    /\ nonblocking \in [Procs -> BOOLEAN]
    /\ sleep_ms \in [Procs -> SleepChoices]
    /\ timeout_ms \in [Procs -> TimeoutChoices]
    /\ elapsed = [p \in Procs |-> 0]
    /\ slept = [p \in Procs |-> 0]
    /\ trace = [p \in Procs |-> <<>>]
    /\ listener = [p \in Procs |-> "none"]
    /\ stream = [p \in Procs |-> NoStream]
    /\ backlog = [p \in Procs |-> <<>>]
    /\ accepted = [p \in Procs |-> NoConn]
    /\ event = NoEvent
    /\ CodecOff
    /\ StreamsOff

\* an attempt of the waiter p
TakeoverConnect(p) ==
    /\ InWait(p)
    /\ Connect(p)
    /\ event'.ret.kind # "PermissionDenied"

NextTakeover ==
    \E p \in Procs :
        \/ TakeoverConnect(p)
        \/ Bind(p)
        \/ WaitExisting(p)
        \/ WaitSleep(p)
        \/ TimePasses(p)
        \/ Accept(p)

SpecTakeover == InitTakeover /\ [][NextTakeover]_vars

\* ------------------------------------------------------------------ C18
\* C18: after the holder dropped the Listener with two or more processes
\* inside wait_to_be_new, at most one of them holds a Listener, and a call of
\* wait_to_be_new returns nothing but New or the TimedOut error.
C18_Takeover ==
    /\ Cardinality(Holders) <= 1
    /\ event.to = "wait" => event.ret \in {RetNew, RetErr("TimedOut")}

\* ------------------------------------------------------------------ C19
\* the elapsed time the deadline check of p sees after the sleep
AfterSleep(p) ==
    IF elapsed[p] + sleep_ms[p] > ElapsedCap THEN ElapsedCap ELSE elapsed[p] + sleep_ms[p]

C19_Step ==
    \A p \in Procs :
        \* the call starts with an attempt
        /\ (~InWait(p) /\ InWait(p)') => pc'[p] = "w_try" /\ elapsed'[p] = 0
        \* which is made whatever the elapsed time and the timeout are, and
        \* ends without a deadline check
        /\ (pc[p] = "w_try" /\ pc'[p] # "w_try")
              => /\ \/ pc'[p] = "w_bind" /\ Len(trace'[p]) = 1
                    \/ pc'[p] = "w_existing" /\ event'.ret = RetExisting /\ event'.to = "loop"
                    \/ /\ pc'[p] = "idle"
                       /\ event'.to = "wait"
                       /\ event'.ret.tag = "Err"
                       /\ event'.ret.kind # "TimedOut"
        \* with the identifier free it returns New, whatever they are
        /\ (pc[p] = "w_bind" /\ Holders = {} /\ pc'[p] # "w_bind")
              => /\ event'.to = "wait"
                 /\ event'.proc = p
                 /\ event'.ret = RetNew
                 /\ event'.timeout = timeout_ms[p]
                 /\ event'.elapsed = elapsed[p]
        \* the sleep follows an Existing result only
        /\ (pc'[p] = "w_existing" /\ pc[p] # "w_existing") => pc[p] = "w_try"
        /\ (pc'[p] = "w_sleep" /\ pc[p] # "w_sleep") => pc[p] = "w_existing"
        \* the deadline check follows the sleep only
        /\ (event'.proc = p /\ event'.ret = RetErr("TimedOut")) => pc[p] = "w_sleep"
        \* and decides: TimedOut and no further attempt, or the next attempt
        /\ (pc[p] = "w_sleep" /\ pc'[p] # "w_sleep")
              => IF Expired(AfterSleep(p), timeout_ms[p])
                 THEN /\ pc'[p] = "idle"
                      /\ event'.proc = p
                      /\ event'.to = "wait"
                      /\ event'.ret = RetErr("TimedOut")
                      /\ event'.elapsed = AfterSleep(p)
                 ELSE /\ pc'[p] = "w_try"
                      /\ elapsed'[p] = AfterSleep(p)
                      /\ event' = NoEvent

\* C19 (amended): every call of wait_to_be_new makes an attempt before any
\* deadline check, so with the identifier free it returns New even when
\* timeout_ms = 0 and time has passed; the deadline is checked only after the
\* sleep that follows an Existing result; and once a deadline check has found
\* the elapsed time above timeout_ms the call returns TimedOut and makes no
\* further attempt.
C19_AttemptThenCheck == [][C19_Step]_vars

\* the first attempt of a call with timeout_ms = 0 returned New, time having
\* passed since the call
C19_Witness ==
    /\ event.to = "wait"
    /\ event.ret = RetNew
    /\ event.timeout = 0
    /\ event.elapsed > 0
    /\ event.slept = 0

\* C19 as stated: once the elapsed time is above timeout_ms the call makes
\* no further attempt.
C19_NoAttemptPastDeadline ==
    [][\A p \in Procs :
          (pc[p] = "w_try" /\ Expired(elapsed[p], timeout_ms[p])) => pc'[p] = "w_try"]_vars

\* ------------------------------------------------------------------ C20
\* the connections of the listener's side, pending or accepted
ConnsOf(o) ==
    {backlog[o][i] : i \in DOMAIN backlog[o]} \cup {accepted[o]}

C20_Step ==
    \A p \in Procs :
        \* an attempt that yields Existing opens one connection to the listener
        /\ (event'.to = "loop" /\ event'.proc = p)
              => /\ event'.ret = RetExisting
                 /\ Holders # {}
                 /\ backlog' = [backlog EXCEPT ![Holder] =
                                   Append(@, [from |-> p, open |-> TRUE, sent |-> <<>>,
                                              held |-> TRUE, poll |-> TRUE])]
                 /\ accepted' = accepted
        \* and closes it with nothing written, pending or accepted
        /\ (pc[p] = "w_existing" /\ pc'[p] # "w_existing")
              => /\ stream[p] # NoStream
                 /\ stream'[p] = NoStream
                 /\ \A o \in Procs :
                       /\ Len(backlog'[o]) = Len(backlog[o])
                       /\ \A i \in DOMAIN backlog[o] :
                             backlog'[o][i] = IF backlog[o][i].from = p
                                              THEN ClosedUnsent ELSE backlog[o][i]
                       /\ accepted'[o] = IF accepted[o].from = p
                                         THEN ClosedUnsent ELSE accepted[o]
        \* accept hands the pending connections out one by one, oldest first
        /\ (event'.to = "accept" /\ event'.proc = p /\ event'.ret.tag = "Some")
              => accepted'[p] = Head(backlog[p]) /\ backlog'[p] = Tail(backlog[p])
        \* recv on the Stream of such a connection returns None
        /\ (/\ event'.to = "recv" \/ event'.ret.tag = "Panic"
            /\ event'.proc = p
            /\ accepted[p].poll)
              => /\ event'.to = "recv"
                 /\ event'.ret.tag = "None"
                 /\ accepted' = accepted

\* C20: every attempt of wait_to_be_new that yields Existing opens one
\* connection to the listener, which stays pending until accept returns its
\* Stream, and closes it with nothing written; recv on the Stream of such a
\* connection returns None, never a Msg.
C20_PollingVisible ==
    /\ [][C20_Step]_vars
    /\ [](\A o \in Procs : \A c \in ConnsOf(o) :
            c.poll => /\ c.sent = <<>>
                      /\ c.held
                      /\ c.open => pc[c.from] = "w_existing" /\ stream[c.from] = o)
    /\ [](\A o \in Procs :
            (pc[o] = "idle" /\ accepted[o].poll /\ ~accepted[o].open)
                => ENABLED (RecvAccepted(o) /\ event'.ret.tag = "None"))

\* the listener's process accepted the Stream of a waiter's attempt, closed
\* by then, and recv on it returned None
C20_Witness ==
    /\ event.to = "recv"
    /\ event.ret.tag = "None"
    /\ accepted[event.proc] = ClosedUnsent

====
